---------------------------- MODULE Spec2Model ----------------------------
(***************************************************************************)
(* A model of the epater ARM simulator core (procsimulator.py): the        *)
(* breakpoint bus, the register file, the flags, the sectioned memory, the *)
(* barrel shifter, the executor and the simulator facade.                  *)
(*                                                                         *)
(* Python integers are unbounded; TLC's are 32-bit.  An integer v of the   *)
(* program is therefore kept as a record [hi, lo] with v = hi * 2^16 + lo, *)
(* lo in 0..65535 and hi any (signed) integer, which is exact for every    *)
(* |v| < 2^47.  The bits of a negative v are those of Python's infinite    *)
(* two's complement (floor division).                                      *)
(***************************************************************************)
EXTENDS Integers, Sequences, FiniteSets, TLC

VARIABLES
    regs,               \* Register.val of the 16 registers
    regbkpt,            \* Register.breakpoint of the 16 registers
    flags,              \* Flag.val of Z, V, C, N
    flagbkpt,           \* Flag.breakpoint of Z, V, C, N
    startAddr,          \* Memory.startAddr: section -> first address
    endAddr,            \* Memory.endAddr: section -> address after the last
    data,               \* Memory.data: section -> bytes
    initdata,           \* Memory.initdata
    history,            \* Memory.history, the write log
    breakpoints,        \* Memory.breakpoints: address -> mask
    breakpointTrigged,  \* BreakPointHandler.breakpointTrigged
    breakpointInfo,     \* BreakPointHandler.breakpointInfo
    state,              \* Simulator.state
    countCycle,         \* Simulator.countCycle
    stepMode,           \* Simulator.stepMode
    stepCondition,      \* Simulator.stepCondition (the spec's stepDepth)
    fetchedInstr,       \* Simulator.fetchedInstr
    exc,                \* the exception the last call raised, or "none"
    thrown,             \* the events the last call threw, in order
    last,               \* the last call: its name, arguments and what it met
    nCalls,             \* number of direct calls made by the driver
    nCycles             \* number of nextInstr calls made by the driver

vars == <<regs, regbkpt, flags, flagbkpt, startAddr, endAddr, data, initdata,
          history, breakpoints, breakpointTrigged, breakpointInfo, state,
          countCycle, stepMode, stepCondition, fetchedInstr, exc, thrown,
          last, nCalls, nCycles>>

---------------------------------------------------------------------------
(* Bounds of the model. *)

\* Direct calls (Register.set, Flag.set, Memory.set, breakpoint settings,
\* setStepCondition) the driver makes in one behaviour.
MaxCalls == 1

\* nextInstr calls the driver makes in one behaviour.
MaxCycles == 3

\* nextInstr calls of a stepping session (SpecStep)
MaxStepCycles == 5

---------------------------------------------------------------------------
(* Unbounded integers. *)

B16 == 2^16

W(h, l) == [hi |-> h, lo |-> l]

\* hi * 2^16 + lo with lo brought back into 0..65535
Norm(h, l) == W(h + (l \div B16), l % B16)

FromInt(i) == Norm(0, i)

\* Only for values known to be small.
ToInt(a) == a.hi * B16 + a.lo

Zero == W(0, 0)

IsZero(a) == a.hi = 0 /\ a.lo = 0

Add(a, b) == Norm(a.hi + b.hi, a.lo + b.lo)

Sub(a, b) == Norm(a.hi - b.hi, a.lo - b.lo)

AddI(a, i) == Add(a, FromInt(i))

\* a < b
Lt(a, b) == a.hi < b.hi \/ (a.hi = b.hi /\ a.lo < b.lo)

\* ~a
Not(a) == Sub(Sub(Zero, a), FromInt(1))

\* Bit k of the integer x, in two's complement.
IBit(x, k) == (x \div 2^k) % 2

\* The sum over the bits k..29 of 2^k * f[bit k of x, bit k of y]
RECURSIVE BitSum(_, _, _, _)
BitSum(f, x, y, k) ==
    IF k > 29 THEN 0
    ELSE 2^k * f[IBit(x, k), IBit(y, k)] + BitSum(f, x, y, k + 1)

\* x & y, x | y, x ^ y for -2^30 <= x, y < 2^30: the bits 0..29, and the
\* sign, which stands for all the bits above.
IAnd(x, y) ==
    BitSum([i \in 0..1, j \in 0..1 |-> i * j], x, y, 0)
    - (IF x < 0 /\ y < 0 THEN 2^30 ELSE 0)

IOr(x, y) ==
    BitSum([i \in 0..1, j \in 0..1 |-> IF i + j > 0 THEN 1 ELSE 0], x, y, 0)
    - (IF x < 0 \/ y < 0 THEN 2^30 ELSE 0)

IXor(x, y) ==
    BitSum([i \in 0..1, j \in 0..1 |-> (i + j) % 2], x, y, 0)
    - (IF (x < 0) # (y < 0) THEN 2^30 ELSE 0)

\* a & b, a | b, a ^ b
And(a, b) == W(IAnd(a.hi, b.hi), IAnd(a.lo, b.lo))

Or(a, b) == W(IOr(a.hi, b.hi), IOr(a.lo, b.lo))

Xor(a, b) == W(IXor(a.hi, b.hi), IXor(a.lo, b.lo))

\* a & 0xFFFFFFFF
Mask32(a) == W(a.hi % B16, a.lo)

\* (a >> k) & 1, for 0 <= k < 47
Bit(a, k) == IF k < 16 THEN (a.lo \div 2^k) % 2 ELSE (a.hi \div 2^(k - 16)) % 2

\* a >> n, for n >= 0
RECURSIVE Shr(_, _)
Shr(a, n) ==
    IF n >= 16 THEN Shr(W(a.hi \div B16, a.hi % B16), n - 16)
    ELSE W(a.hi \div 2^n, (a.hi % 2^n) * 2^(16 - n) + (a.lo \div 2^n))

\* (a << n) & 0xFFFFFFFF, for n >= 0, from the low 32 bits of a, so that no
\* intermediate value leaves the range the representation is exact for.
Shl32(a, n) ==
    LET h == a.hi % B16
    IN IF n >= 32 THEN Zero
       ELSE IF n >= 16 THEN W((a.lo * 2^(n - 16)) % B16, 0)
       ELSE W((h * 2^n + ((a.lo * 2^n) \div B16)) % B16, (a.lo * 2^n) % B16)

\* a lies in [0, 2^32)
IsU32(a) == a.hi \in 0..(B16 - 1) /\ a.lo \in 0..(B16 - 1)

---------------------------------------------------------------------------
(* The state of one simulator as a record, threaded through the steps of a *)
(* call.                                                                   *)

Cur ==
    [regs |-> regs, regbkpt |-> regbkpt, flags |-> flags, flagbkpt |-> flagbkpt,
     data |-> data, initdata |-> initdata, history |-> history,
     breakpoints |-> breakpoints,
     breakpointTrigged |-> breakpointTrigged, breakpointInfo |-> breakpointInfo,
     state |-> state, countCycle |-> countCycle, stepMode |-> stepMode,
     stepCondition |-> stepCondition, fetchedInstr |-> fetchedInstr,
     exc |-> "none", thrown |-> <<>>]

\* The variables take the values of s; the layout of the memory is fixed at
\* construction.
Commit(s) ==
    /\ regs' = s.regs
    /\ regbkpt' = s.regbkpt
    /\ flags' = s.flags
    /\ flagbkpt' = s.flagbkpt
    /\ data' = s.data
    /\ initdata' = s.initdata
    /\ history' = s.history
    /\ breakpoints' = s.breakpoints
    /\ breakpointTrigged' = s.breakpointTrigged
    /\ breakpointInfo' = s.breakpointInfo
    /\ state' = s.state
    /\ countCycle' = s.countCycle
    /\ stepMode' = s.stepMode
    /\ stepCondition' = s.stepCondition
    /\ fetchedInstr' = s.fetchedInstr
    /\ exc' = s.exc
    /\ thrown' = s.thrown
    /\ UNCHANGED <<startAddr, endAddr>>

\* Python's None, where the other values are sequences.
None == <<>>

\* A call that raised stops there: the rest of it does not run.
Raise(s, e) == [s EXCEPT !.exc = e]

Ok(s) == s.exc = "none"

---------------------------------------------------------------------------
(* BreakPointHandler *)

BkptInfo(source, mode, infos) == <<source, mode, infos>>

BkptReset(s) ==
    [s EXCEPT !.breakpointTrigged = FALSE, !.breakpointInfo = None]

Throw(s, infos) ==
    [s EXCEPT !.breakpointTrigged = TRUE, !.breakpointInfo = infos,
              !.thrown = Append(@, infos)]

---------------------------------------------------------------------------
(* Register *)

RegIds == 0..15

\* n & b for a mask n in 0..7 and a single bit b in {1, 2, 4}
HasBit(n, b) == (n \div b) % 2 = 1

\* Register.get: the state after the call; the value is s.regs[id].
RegGet(s, id) ==
    IF HasBit(s.regbkpt[id], 4) THEN Throw(s, BkptInfo("register", 4, id)) ELSE s

\* Register.set without the truncation of val to 32 bits
RegSetUntruncated(s, id, val) ==
    LET s1 == IF HasBit(s.regbkpt[id], 2)
              THEN Throw(s, BkptInfo("register", 2, id)) ELSE s
    IN [s1 EXCEPT !.regs[id] = val]

\* Register.set that throws nothing on the bus
RegSetSilent(s, id, val) == [s EXCEPT !.regs[id] = Mask32(val)]

\* Register.set with mayTriggerBkpt
RegSet(s, id, val) ==
    LET v == Mask32(val)
        s1 == IF HasBit(s.regbkpt[id], 2)
              THEN Throw(s, BkptInfo("register", 2, id)) ELSE s
    IN [s1 EXCEPT !.regs[id] = v]

---------------------------------------------------------------------------
(* Flag *)

FlagNames == {"Z", "V", "C", "N"}

\* Flag.get, also Flag.__bool__: the state after the call.
FlagGet(s, name) ==
    IF HasBit(s.flagbkpt[name], 4) THEN Throw(s, BkptInfo("flag", 4, name)) ELSE s

FlagSet(s, name, val) ==
    LET s1 == IF HasBit(s.flagbkpt[name], 2)
              THEN Throw(s, BkptInfo("flag", 2, name)) ELSE s
    IN [s1 EXCEPT !.flags[name] = val]

---------------------------------------------------------------------------
(* Memory *)

Secs == DOMAIN startAddr

maxAddr == CHOOSE m \in {endAddr[sec] : sec \in Secs} :
               \A sec \in Secs : endAddr[sec] <= m

\* Memory._getRelativeAddr: None, or <<section, offset>>.
GetRelativeAddr(addr, size) ==
    IF Lt(addr, Zero) \/ Lt(FromInt(maxAddr - (size - 1)), addr) THEN None
    ELSE LET a == ToInt(addr)
             hit == {sec \in Secs :
                        startAddr[sec] <= a /\ a < endAddr[sec] - (size - 1)}
         IN IF hit = {} THEN None
            ELSE LET sec == CHOOSE x \in hit : TRUE
                 IN <<sec, a - startAddr[sec]>>

\* The mask of one address: Memory.breakpoints is a defaultdict(int).
MaskAt(s, a) == IF a \in DOMAIN s.breakpoints THEN s.breakpoints[a] ELSE 0

\* The loop of Memory.get over the bytes read, from offset on.
RECURSIVE GetBkpts(_, _, _, _, _)
GetBkpts(s, a, size, execMode, offset) ==
    IF offset >= size THEN s
    ELSE LET s1 == IF execMode /\ HasBit(MaskAt(s, a + offset), 1)
                   THEN Throw(s, BkptInfo("memory", 1, FromInt(a + offset)))
                   ELSE s
             s2 == IF HasBit(MaskAt(s, a + offset), 4)
                   THEN Throw(s1, BkptInfo("memory", 4, FromInt(a + offset)))
                   ELSE s1
         IN GetBkpts(s2, a, size, execMode, offset + 1)

\* Memory.get: [s |-> the state after, v |-> None or the bytes read].
MemGet(s, addr, size, execMode) ==
    LET resolvedAddr == GetRelativeAddr(addr, size)
    IN IF resolvedAddr = None
       THEN [s |-> Throw(s, BkptInfo("memory", 8, addr)), v |-> None]
       ELSE LET sec == resolvedAddr[1]
                offset == resolvedAddr[2]
            IN [s |-> GetBkpts(s, ToInt(addr), size, execMode, 0),
                v |-> SubSeq(s.data[sec], offset + 1, offset + size)]

\* The loop of Memory.set over the bytes written, from offset on.
RECURSIVE SetBkpts(_, _, _, _)
SetBkpts(s, a, size, offset) ==
    IF offset >= size THEN s
    ELSE LET s1 == IF HasBit(MaskAt(s, a + offset), 2)
                   THEN Throw(s, BkptInfo("memory", 2, FromInt(a + offset)))
                   ELSE s
         IN SetBkpts(s1, a, size, offset + 1)

\* The slice assignment writing the low bytes of val: the bytearrays of
\* data are the ones initdata holds, so the snapshot takes the bytes too.
SliceAssignBytes(s, sec, offset, size, val) ==
    LET b == <<val.lo % 256, val.lo \div 256, val.hi % 256, val.hi \div 256>>
        written == [i \in 1..Len(s.data[sec]) |->
                        IF i > offset /\ i <= offset + size
                        THEN b[i - offset] ELSE s.data[sec][i]]
    IN [s EXCEPT !.data[sec] = written, !.initdata[sec] = written]

\* data[sec][offset:offset+size] = val with val an int: bytearray accepts
\* only bytes, buffers and iterables of ints there, and raises TypeError
\* without changing the buffer.
SliceAssignInt(s, sec, offset, size, val) == Raise(s, "TypeError")

\* Memory.set logging the write before it resolves the address
MemSetLogsFirst(s, addr, val, size) ==
    LET resolvedAddr == GetRelativeAddr(addr, size)
        s0 == [s EXCEPT !.history = Append(@, <<addr, size, Mask32(val)>>)]
    IN IF resolvedAddr = None
       THEN Throw(s0, BkptInfo("memory", 8, addr))
       ELSE SliceAssignInt(SetBkpts(s0, ToInt(addr), size, 0),
                           resolvedAddr[1], resolvedAddr[2], size, Mask32(val))

\* Memory.set
MemSet(s, addr, val, size) ==
    LET resolvedAddr == GetRelativeAddr(addr, size)
    IN IF resolvedAddr = None
       THEN Throw(s, BkptInfo("memory", 8, addr))
       ELSE LET sec == resolvedAddr[1]
                offset == resolvedAddr[2]
                s1 == SetBkpts(s, ToInt(addr), size, 0)
                v == Mask32(val)
                s2 == [s1 EXCEPT !.history = Append(@, <<sec, offset, size, v>>)]
            IN SliceAssignInt(s2, sec, offset, size, v)

\* The sections by ascending start address:
\* sorted(self.startAddr.items(), key=operator.itemgetter(1))
RECURSIVE SortedMem(_)
SortedMem(left) ==
    IF left = {} THEN <<>>
    ELSE LET sec == CHOOSE x \in left : \A y \in left : startAddr[x] <= startAddr[y]
         IN <<sec>> \o SortedMem(left \ {sec})

\* A padding one byte short
PaddingShort(n) == [i \in 1..(n - 1) |-> 0]

\* bytearray('\0' * n, 'utf-8'): empty when n <= 0
Padding(n) == [i \in 1..n |-> 0]

\* Memory.serialize
RECURSIVE SerializeFrom(_, _, _)
SerializeFrom(mem, sorted, ret) ==
    IF sorted = <<>> THEN ret
    ELSE LET sec == Head(sorted)
             start == startAddr[sec]
             r1 == ret \o Padding(start - Len(ret))
             r2 == r1 \o mem[sec]
             r3 == r2 \o Padding(endAddr[sec] - start - Len(mem[sec]))
         IN SerializeFrom(mem, Tail(sorted), r3)

Serialize(mem) == SerializeFrom(mem, SortedMem(Secs), <<>>)

---------------------------------------------------------------------------
(* The decoder, instruction.BytecodeToInstrInfos: its code is not among    *)
(* the sources; the fields are those execInstr reads, extracted from the   *)
(* ARM7TDMI encoding the specification names.  bc is the 4 bytes fetched,  *)
(* least significant first.                                                *)

CondNames == <<"EQ", "NE", "CS", "CC", "MI", "PL", "VS", "VC",
               "HI", "LS", "GE", "LT", "GT", "LE", "AL", "NV">>

OpcodeNames == <<"AND", "EOR", "SUB", "RSB", "ADD", "ADC", "SBC", "RSC",
                 "TST", "TEQ", "CMP", "CMN", "ORR", "MOV", "BIC", "MVN">>

ShiftNames == <<"LSL", "LSR", "ASR", "ROR">>

\* The shift of a register operand, from bits 11..4 of the word.
DecodeShift(sh) ==
    LET type == ShiftNames[((sh \div 2) % 4) + 1]
    IN IF sh % 2 = 1 THEN <<type, "reg", sh \div 16>>
       ELSE <<type, "imm", sh \div 8>>

BytecodeToInstrInfos(bc) ==
    LET b0 == bc[1]
        b1 == bc[2]
        b2 == bc[3]
        b3 == bc[4]
        cond == CondNames[(b3 \div 16) + 1]
        class == (b3 \div 2) % 8            \* bits 27..25
        bit24 == b3 % 2
        bit(byte, k) == (byte \div 2^k) % 2 = 1
        imm24 == b2 * 65536 + b1 * 256 + b0
    IN IF b3 % 16 = 1 /\ b2 = 47 /\ b1 = 255 /\ b0 \div 16 = 1
       THEN \* BX Rn
            [t |-> "branch", cond |-> cond,
             misc |-> [L |-> FALSE, mode |-> "reg", offset |-> b0 % 16]]
       ELSE IF class = 5
       THEN [t |-> "branch", cond |-> cond,
             misc |-> [L |-> bit24 = 1, mode |-> "imm",
                       offset |-> 4 * (IF imm24 >= 2^23 THEN imm24 - 2^24
                                       ELSE imm24)]]
       ELSE IF class \in {2, 3}
       THEN [t |-> "memop", cond |-> cond,
             misc |-> [base |-> b2 % 16, rd |-> b1 \div 16,
                       imm |-> class = 2,
                       pre |-> bit24 = 1,
                       sign |-> IF bit(b2, 7) THEN 1 ELSE -1,
                       byte |-> bit(b2, 6),
                       writeback |-> bit(b2, 5) \/ bit24 = 0,
                       mode |-> IF bit(b2, 4) THEN "LDR" ELSE "STR",
                       offset |-> IF class = 2 THEN (b1 % 16) * 256 + b0
                                  ELSE <<b0 % 16,
                                         DecodeShift((b1 % 16) * 16 + (b0 \div 16))>>]]
       ELSE IF class = 1 \/ (class = 0 /\ ~(bit(b0, 7) /\ bit(b0, 4)))
       THEN [t |-> "dataop", cond |-> cond,
             misc |-> [rn |-> b2 % 16, rd |-> b1 \div 16,
                       imm |-> class = 1,
                       opcode |-> OpcodeNames[bit24 * 8 + (b2 \div 32) + 1],
                       setflags |-> bit(b2, 4),
                       op2 |-> IF class = 1
                               THEN <<b0, <<"ROR", "imm", 2 * (b1 % 16)>> >>
                               ELSE <<b0 % 16,
                                      DecodeShift((b1 % 16) * 16 + (b0 \div 16))>>]]
       ELSE [t |-> "other", cond |-> cond, misc |-> [none |-> TRUE]]

---------------------------------------------------------------------------
(* The barrel shifter, Simulator._shiftVal:                                *)
(* [s |-> the state after, carry |-> carryOut, val |-> the shifted value]. *)
(* A negative shift count raises ValueError; int() of a Flag, which        *)
(* defines neither __int__ nor __index__, raises TypeError.                *)

ShiftVal(s0, val, shiftInfo) ==
    LET byReg == shiftInfo[2] = "reg"
        s == IF byReg THEN RegGet(s0, shiftInfo[3]) ELSE s0
        shiftamount == IF byReg THEN s0.regs[shiftInfo[3]].lo % 16 ELSE shiftInfo[3]
        kind == shiftInfo[1]
        R(st, c, v) == [s |-> st, carry |-> c, val |-> v]
    IN CASE kind = "LSL" ->
              R(s, Bit(val, 32 - shiftamount), Shl32(val, shiftamount))
         [] kind = "LSR" ->
              IF shiftamount = 0 THEN R(Raise(s, "ValueError"), 0, val)
              ELSE R(s, Bit(val, shiftamount - 1), Mask32(Shr(val, shiftamount)))
         [] kind = "ASR" ->
              IF shiftamount = 0 THEN R(Raise(s, "ValueError"), 0, val)
              ELSE R(s, Bit(val, shiftamount - 1),
                     \* 2**(shiftamount+1) << (32-shiftamount) is 2^33
                     Or(Mask32(Shr(val, shiftamount)), W(2^17, 0)))
         [] kind = "ROR" ->
              IF shiftamount = 0 THEN R(Raise(s, "TypeError"), Bit(val, 0), val)
              ELSE R(s, Bit(val, shiftamount - 1),
                     Or(Shr(Mask32(val), shiftamount % 32),
                        Shl32(val, 32 - (shiftamount % 32))))

---------------------------------------------------------------------------
(* The executor, Simulator.execInstr *)

\* The condition test of execInstr, which asks whether the condition is NOT
\* met: [s |-> the state after the flags were read, v |-> not met].  A flag
\* in a boolean context is read through Flag.get; V == N compares the
\* values without a read.
CondNotMet(s, cond) ==
    LET f == s.flags
        R(st, b) == [s |-> st, v |-> b]
    IN CASE cond = "EQ" -> R(FlagGet(s, "Z"), ~f["Z"])
         [] cond = "NE" -> R(FlagGet(s, "Z"), f["Z"])
         [] cond = "CS" -> R(FlagGet(s, "C"), ~f["C"])
         [] cond = "CC" -> R(FlagGet(s, "C"), f["C"])
         [] cond = "MI" -> R(FlagGet(s, "N"), ~f["N"])
         [] cond = "PI" -> R(FlagGet(s, "N"), f["N"])
         [] cond = "VS" -> R(FlagGet(s, "V"), ~f["V"])
         [] cond = "VC" -> R(FlagGet(s, "V"), f["V"])
         [] cond = "HI" -> IF ~f["C"] THEN R(FlagGet(s, "C"), TRUE)
                           ELSE R(FlagGet(FlagGet(s, "C"), "Z"), f["Z"])
         [] cond = "LS" -> IF ~f["C"] THEN R(FlagGet(s, "C"), FALSE)
                           ELSE R(FlagGet(FlagGet(s, "C"), "Z"), ~f["Z"])
         [] cond = "GE" -> R(s, ~(f["V"] = f["N"]))
         [] cond = "LT" -> R(s, f["V"] = f["N"])
         [] cond = "GT" -> R(FlagGet(s, "Z"), f["Z"] \/ ~(f["V"] = f["N"]))
         [] cond = "LE" -> R(FlagGet(s, "Z"), ~f["Z"] /\ f["V"] = f["N"])
         [] OTHER -> R(s, FALSE)

\* The branch without the -4 that makes up for the increment of nextInstr
ExecBranchNoComp(s, misc) ==
    LET s1 == IF misc.L
              THEN LET g == RegGet(s, 15)
                       w == RegSet(g, 14, AddI(g.regs[15], 4))
                   IN [w EXCEPT !.stepCondition = @ + 1]
              ELSE s
    IN IF misc.mode = "imm"
       THEN LET g == RegGet(s1, 15)
            IN RegSet(g, 15, AddI(g.regs[15], misc.offset))
       ELSE LET g == RegGet(s1, misc.offset)
                w == RegSet(g, 15, g.regs[misc.offset])
            IN [w EXCEPT !.stepCondition = @ - 1]

ExecBranch(s, misc) ==
    LET s1 == IF misc.L
              THEN LET g == RegGet(s, 15)
                       w == RegSet(g, 14, AddI(g.regs[15], 4))
                   IN [w EXCEPT !.stepCondition = @ + 1]
              ELSE s
    IN IF misc.mode = "imm"
       THEN LET g == RegGet(s1, 15)
            IN RegSet(g, 15, AddI(g.regs[15], misc.offset - 4))
       ELSE LET g == RegGet(s1, misc.offset)
                w == RegSet(g, 15, AddI(g.regs[misc.offset], -4))
            IN [w EXCEPT !.stepCondition = @ - 1]

\* struct.unpack("<I", m)[0]
UnpackI(m) == W(m[4] * 256 + m[3], m[2] * 256 + m[1])

ExecMemOp(s, misc) ==
    LET s1 == RegGet(s, misc.base)
        baseval == s1.regs[misc.base]
        \* sval, _ = self._shiftVal(...): the first of the pair returned is
        \* the carry
        sh == IF misc.imm THEN [s |-> s1, carry |-> 0, val |-> Zero]
              ELSE ShiftVal(RegGet(s1, misc.offset[1]),
                            s1.regs[misc.offset[1]], misc.offset[2])
        addr == IF misc.imm THEN AddI(baseval, misc.sign * misc.offset)
                ELSE AddI(baseval, misc.sign * sh.carry)
        realAddr == IF misc.pre THEN addr ELSE baseval
        size == IF misc.byte THEN 1 ELSE 4
        WriteBack(st) == IF misc.writeback THEN RegSet(st, misc.base, addr) ELSE st
    IN IF ~Ok(sh.s) THEN sh.s
       ELSE IF misc.mode = "LDR"
       THEN LET m == MemGet(sh.s, realAddr, size, FALSE)
            IN IF m.v = None THEN m.s
               ELSE IF Len(m.v) # 4 THEN Raise(m.s, "struct.error")
               ELSE WriteBack(RegSet(m.s, misc.rd, UnpackI(m.v)))
       ELSE LET g == RegGet(sh.s, misc.rd)
                w == MemSet(g, realAddr, g.regs[misc.rd], size)
            IN IF ~Ok(w) THEN w ELSE WriteBack(w)

\* One staged flag of workingFlags: absent, or present with a value.
Unset == [set |-> FALSE, val |-> FALSE]

Staged(b) == [set |-> TRUE, val |-> b]

\* for flag in workingFlags: self.flags[flag].set(workingFlags[flag]), in
\* the order the keys were first inserted: C, V, Z, N.
RECURSIVE ApplyFlags(_, _, _)
ApplyFlags(s, wf, order) ==
    IF order = <<>> THEN s
    ELSE LET name == Head(order)
             s1 == IF wf[name].set THEN FlagSet(s, name, wf[name].val) ELSE s
         IN ApplyFlags(s1, wf, Tail(order))

\* int(self.flags['C'].get())
CarryIn(s) == IF s.flags["C"] THEN 1 ELSE 0

\* res of a data operation; ADC, SBC and RSC read the C flag first
DataRes(opcode, op1, op2, c) ==
    CASE opcode \in {"AND", "TST"} -> And(op1, op2)
      [] opcode \in {"EOR", "TEQ"} -> Xor(op1, op2)
      [] opcode \in {"SUB", "CMP"} -> Sub(op1, op2)
      [] opcode = "RSB" -> Sub(op2, op1)
      [] opcode \in {"ADD", "CMN"} -> Add(op1, op2)
      [] opcode = "ADC" -> AddI(Add(op1, op2), c)
      [] opcode = "SBC" -> AddI(AddI(Sub(op1, op2), c), -1)
      [] opcode = "RSC" -> AddI(AddI(Sub(op2, op1), c), -1)
      [] opcode = "ORR" -> Or(op1, op2)
      [] opcode = "MOV" -> op2
      [] opcode = "BIC" -> And(op1, Not(op2))
      [] opcode = "MVN" -> Not(op2)

\* workingFlags in which Z is never staged
WorkingFlagsNoZ(misc, op1, op2, res, carry) ==
    [C |-> IF misc.imm THEN Unset ELSE Staged(carry = 1),
     V |-> Unset,
     Z |-> Unset,
     N |-> IF Bit(res, 31) = 1 THEN Staged(TRUE) ELSE Unset]

\* workingFlags as execInstr leaves it before it is applied
WorkingFlags(misc, op1, op2, res, carry) ==
    LET sameSign == Bit(op1, 31) = Bit(op2, 31)
        isAdd == misc.opcode \in {"ADD", "CMN", "ADC"}
    IN [C |-> IF isAdd THEN Staged(Bit(res, 32) = 1)
              ELSE IF misc.imm THEN Unset ELSE Staged(carry = 1),
        \* not bool((op1 & 0x80000000) ^ (res & 0x80000000))
        V |-> IF isAdd /\ sameSign THEN Staged(Bit(op1, 31) = Bit(res, 31))
              ELSE Unset,
        Z |-> IF IsZero(res) THEN Staged(TRUE) ELSE Unset,
        N |-> IF Bit(res, 31) = 1 THEN Staged(TRUE) ELSE Unset]

ExecDataOp(s, misc) ==
    LET s1 == RegGet(s, misc.rn)
        op1 == s1.regs[misc.rn]
        sh == IF misc.imm
              THEN IF misc.op2[2][3] # 0
                   THEN ShiftVal(s1, FromInt(misc.op2[1]), misc.op2[2])
                   ELSE [s |-> s1, carry |-> 0, val |-> FromInt(misc.op2[1])]
              ELSE ShiftVal(RegGet(s1, misc.op2[1]), s1.regs[misc.op2[1]],
                            misc.op2[2])
        op2 == sh.val
        s2 == IF misc.opcode \in {"ADC", "SBC", "RSC"}
              THEN FlagGet(sh.s, "C") ELSE sh.s
        res == DataRes(misc.opcode, op1, op2, CarryIn(s2))
        wf == WorkingFlags(misc, op1, op2, res, sh.carry)
        s3 == IF misc.setflags THEN ApplyFlags(s2, wf, <<"C", "V", "Z", "N">>)
              ELSE s2
    IN IF ~Ok(sh.s) THEN sh.s
       ELSE IF misc.opcode \notin {"TST", "TEQ", "CMP", "CMN"}
       THEN RegSet(s3, misc.rd, res)
       ELSE s3

\* execInstr, on the decoded instruction I
ExecInstr(s, I) ==
    LET c == CondNotMet(s, I.cond)
    IN IF c.v THEN c.s
       ELSE CASE I.t = "branch" -> ExecBranch(c.s, I.misc)
              [] I.t = "memop" -> ExecMemOp(c.s, I.misc)
              [] I.t = "dataop" -> ExecDataOp(c.s, I.misc)
              [] OTHER -> c.s

---------------------------------------------------------------------------
(* The facade: Simulator.reset, nextInstr, isStepDone, setStepCondition *)

\* self.mem.get(self.regs[15].get(), execMode=True)
Fetch(s) == MemGet(RegGet(s, 15), s.regs[15], 4, TRUE)

\* self.fetchedInstr = bytes(m): bytes(None) raises TypeError
ResetFetched(m) ==
    IF m.v = None THEN Raise(m.s, "TypeError")
    ELSE [m.s EXCEPT !.fetchedInstr = m.v]

\* reset that also drops the pending step
SimResetDropsStep(s) ==
    ResetFetched(Fetch(RegSet([s EXCEPT !.state = "ready", !.countCycle = 0,
                                        !.stepMode = "None"],
                              15, Zero)))

\* Simulator.reset
SimReset(s) ==
    ResetFetched(Fetch(RegSet([s EXCEPT !.state = "ready", !.countCycle = 0],
                              15, Zero)))

\* The increment of PC with accesses that throw nothing on the bus
AdvancePCSilent(s) == [s EXCEPT !.regs[15] = Mask32(AddI(s.regs[15], 4))]

\* self.regs[15].set(self.regs[15].get()+4)
AdvancePC(s) == RegSet(RegGet(s, 15), 15, AddI(s.regs[15], 4))

\* The fetch stored whatever Memory.get returned
KeepFetchedAlways(m) == [m.s EXCEPT !.fetchedInstr = m.v]

\* if nextInstrBytes is not None: self.fetchedInstr = bytes(nextInstrBytes)
KeepFetched(m) ==
    IF m.v # None THEN [m.s EXCEPT !.fetchedInstr = m.v] ELSE m.s

\* The end of nextInstr: a breakpoint stops the simulator; one more cycle
EndCycle(s) ==
    [s EXCEPT !.stepMode = IF s.breakpointTrigged THEN "None" ELSE @,
              !.countCycle = @ + 1]

\* nextInstr after execInstr returned, or raised
AfterExec(s) ==
    IF ~Ok(s) THEN s ELSE EndCycle(KeepFetched(Fetch(AdvancePC(s))))

\* nextInstr without the reset of the bus
SimNextInstrNoClear(s) ==
    AfterExec(ExecInstr(s, BytecodeToInstrInfos(s.fetchedInstr)))

\* Simulator.nextInstr
SimNextInstr(s) ==
    AfterExec(ExecInstr(BkptReset(s), BytecodeToInstrInfos(s.fetchedInstr)))

\* isStepDone without the upgrade of a step forward to a step out
SimIsStepDoneNoUpgrade(s) ==
    IF s.stepMode = "forward" THEN [s |-> s, v |-> TRUE]
    ELSE IF s.stepMode = "out" THEN [s |-> s, v |-> s.stepCondition = 0]
    ELSE [s |-> s, v |-> TRUE]

\* Simulator.isStepDone: [s |-> the state after, v |-> the value returned]
SimIsStepDone(s) ==
    IF s.stepMode = "forward"
    THEN IF s.stepCondition = 2
         THEN [s |-> [s EXCEPT !.stepMode = "out", !.stepCondition = 1],
               v |-> FALSE]
         ELSE [s |-> s, v |-> TRUE]
    ELSE IF s.stepMode = "out" THEN [s |-> s, v |-> s.stepCondition = 0]
    ELSE [s |-> s, v |-> TRUE]

\* Simulator.setStepCondition
SimSetStepCondition(s, mode) ==
    [s EXCEPT !.stepMode = mode, !.stepCondition = 1]

---------------------------------------------------------------------------
(* HalfSignedMemOp: the half-word and signed transfers.  The operation is  *)
(* decoded from its word and executed on a simulator context, of which     *)
(* regs is the register file and mem the memory above.                     *)

\* The ARM condition table on the flags f
StdCondHolds(cond, f) ==
    CASE cond = "EQ" -> f["Z"]
      [] cond = "NE" -> ~f["Z"]
      [] cond = "CS" -> f["C"]
      [] cond = "CC" -> ~f["C"]
      [] cond = "MI" -> f["N"]
      [] cond = "PL" -> ~f["N"]
      [] cond = "VS" -> f["V"]
      [] cond = "VC" -> ~f["V"]
      [] cond = "HI" -> f["C"] /\ ~f["Z"]
      [] cond = "LS" -> ~f["C"] \/ f["Z"]
      [] cond = "GE" -> f["N"] = f["V"]
      [] cond = "LT" -> f["N"] # f["V"]
      [] cond = "GT" -> ~f["Z"] /\ f["N"] = f["V"]
      [] cond = "LE" -> f["Z"] \/ f["N"] # f["V"]
      [] cond = "AL" -> TRUE
      [] cond = "NV" -> FALSE

\* AbstractOp._checkCondition
CheckCondition(s, cond) == StdCondHolds(cond, s.flags)

\* HalfSignedMemOp.decode on the 4 bytes of the word, least significant
\* first.  In instrInt & 0xF + ((instrInt >> 4) & 0xF0) the sum is taken
\* before the &.
HalfDecode(bc) ==
    LET b0 == bc[1]
        b1 == bc[2]
        b2 == bc[3]
        b3 == bc[4]
        bit(byte, k) == (byte \div 2^k) % 2 = 1
        imm == bit(b2, 6)
        pre == bit(b3, 0)
    IN [ok |-> bit(b0, 7) /\ bit(b0, 4) /\ (b3 \div 2) % 8 = 0,
        condition |-> CondNames[(b3 \div 16) + 1],
        imm |-> imm,
        pre |-> pre,
        sign |-> IF bit(b2, 7) THEN 1 ELSE -1,
        byte |-> ~bit(b0, 5),
        signed |-> bit(b0, 6),
        writeback |-> bit(b2, 5) \/ ~pre,
        mode |-> IF bit(b2, 4) THEN "LDR" ELSE "STR",
        basereg |-> b2 % 16,
        rd |-> b1 \div 16,
        offsetImm |-> IF imm THEN IAnd(b0, 15 + (b1 % 16) * 16) ELSE 0,
        offsetReg |-> IF imm THEN 0 ELSE b0 % 16]

\* addr of execute, the registers read: [s |-> the state after, v |-> addr]
HalfAddr(s, op) ==
    LET s1 == RegGet(s, op.basereg)
        baseval == s.regs[op.basereg]
    IN IF op.imm
       THEN [s |-> s1, v |-> AddI(baseval, op.sign * op.offsetImm)]
       ELSE [s |-> RegGet(s1, op.offsetReg),
             v |-> IF op.sign = 1 THEN Add(baseval, s.regs[op.offsetReg])
                   ELSE Sub(baseval, s.regs[op.offsetReg])]

\* realAddr = addr if self.pre else baseval
HalfRealAddr(s, op, addr) == IF op.pre THEN addr ELSE s.regs[op.basereg]

\* s = 1 if self.byte else 2
HalfSize(op) == IF op.byte THEN 1 ELSE 2

\* struct.unpack("<B" if self.byte else "<H", m)[0]
UnpackBH(m) == IF Len(m) = 1 THEN m[1] ELSE m[2] * 256 + m[1]

\* The sign bits taken from bit 15 whatever the size
SignBitsOfHalf(res, byte) ==
    IF (res \div 32768) % 2 = 1 THEN W(65535, 0) ELSE Zero

\* What is or-ed into the register loaded: the bits above a set sign bit
SignBits(res, byte) ==
    IF byte THEN (IF (res \div 128) % 2 = 1 THEN W(65535, 65280) ELSE Zero)
    ELSE (IF (res \div 32768) % 2 = 1 THEN W(65535, 0) ELSE Zero)

\* if self.writeback: simulatorContext.regs[self.basereg] = addr
HalfWriteBack(s, op, addr) ==
    IF op.writeback THEN RegSet(s, op.basereg, addr) ELSE s

\* regs[rd] = res, and with signed regs[rd] |= the sign bits
HalfLoaded(s, op, res) ==
    LET s1 == RegSet(s, op.rd, FromInt(res))
    IN IF op.signed
       THEN RegSet(RegGet(s1, op.rd), op.rd,
                   Or(s1.regs[op.rd], SignBits(res, op.byte)))
       ELSE s1

\* The LDR of execute, on what mem.get returned
HalfLoad(m, op, addr) ==
    IF m.v = None THEN Raise(m.s, "ExecutionException")
    ELSE HalfWriteBack(HalfLoaded(m.s, op, UnpackBH(m.v)), op, addr)

\* valWrite of the STR of execute
HalfValWrite(s, op, special) ==
    LET v == IF op.rd = 15 /\ special THEN AddI(s.regs[op.rd], 4)
             ELSE s.regs[op.rd]
    IN And(v, FromInt(65535))

\* The STR of execute, after mem.set
HalfStored(w, op, addr) == IF ~Ok(w) THEN w ELSE HalfWriteBack(w, op, addr)

\* execute once the condition holds and addr is computed
HalfAccess(s, op, addr, special) ==
    IF op.mode = "LDR"
    THEN HalfLoad(MemGet(s, HalfRealAddr(s, op, addr), HalfSize(op), FALSE),
                  op, addr)
    ELSE HalfStored(MemSet(RegGet(s, op.rd), HalfRealAddr(s, op, addr),
                           HalfValWrite(s, op, special),
                           IF op.byte THEN 1 ELSE 2),
                    op, addr)

\* HalfSignedMemOp.execute; special is simulatorContext.PCSpecialBehavior
HalfExecute(s, op, special) ==
    IF ~CheckCondition(s, op.condition) THEN s
    ELSE HalfAccess(HalfAddr(s, op).s, op, HalfAddr(s, op).v, special)

\* decode, then execute
HalfSignedMemOp(s, bc, special) ==
    IF ~HalfDecode(bc).ok THEN Raise(s, "ExecutionException")
    ELSE HalfExecute(s, HalfDecode(bc), special)

---------------------------------------------------------------------------
(* The inputs: instruction words, memory images, arguments of the calls.   *)

\* Condition and opcode numbers of the encoding.
CondNo(name) == (CHOOSE i \in 1..16 : CondNames[i] = name) - 1

OpNo(name) == (CHOOSE i \in 1..16 : OpcodeNames[i] = name) - 1

\* <op>{cond}{S} Rd, Rn, #imm8 ROR 2*rot
EncDataImm(cond, op, S, rn, rd, rot, imm8) ==
    <<imm8, rd * 16 + rot, (OpNo(op) % 8) * 32 + S * 16 + rn,
      CondNo(cond) * 16 + 2 + (OpNo(op) \div 8)>>

\* <op>{cond}{S} Rd, Rn, Rm with the shift field sh (bits 11..4)
EncDataReg(cond, op, S, rn, rd, sh, rm) ==
    <<(sh % 16) * 16 + rm, rd * 16 + (sh \div 16),
      (OpNo(op) % 8) * 32 + S * 16 + rn, CondNo(cond) * 16 + (OpNo(op) \div 8)>>

\* B{L}{cond} with the signed word offset simm24
EncBranch(cond, L, simm24) ==
    LET imm24 == simm24 % 2^24
    IN <<imm24 % 256, (imm24 \div 256) % 256, imm24 \div 65536,
         CondNo(cond) * 16 + 10 + L>>

\* BX{cond} Rn
EncBX(cond, rn) == <<16 + rn, 255, 47, CondNo(cond) * 16 + 1>>

\* LDR/STR{cond}{B} Rd, [Rn, #+/-off12] with its P, U, B, W, L bits
EncMemImm(cond, P, U, Bb, Wb, L, rn, rd, off12) ==
    <<off12 % 256, rd * 16 + (off12 \div 256),
      U * 128 + Bb * 64 + Wb * 32 + L * 16 + rn, CondNo(cond) * 16 + 4 + P>>

Nop == EncDataReg("AL", "MOV", 0, 0, 0, 0, 0)           \* MOV R0, R0

\* Half-word and signed transfers: S and H are bits 6 and 5, the offset is
\* split into the nibbles at bits 11..8 and 3..0.
EncHalfImm(cond, P, U, Wb, L, rn, rd, S, H, off8) ==
    <<128 + S * 64 + H * 32 + 16 + (off8 % 16), rd * 16 + (off8 \div 16),
      U * 128 + 64 + Wb * 32 + L * 16 + rn, CondNo(cond) * 16 + P>>

EncHalfReg(cond, P, U, Wb, L, rn, rd, S, H, rm) ==
    <<128 + S * 64 + H * 32 + 16 + rm, rd * 16,
      U * 128 + Wb * 32 + L * 16 + rn, CondNo(cond) * 16 + P>>

\* The programs run: three words each, loaded at address 0.
Programs ==
    { \* MOVS R0, #0 ; MOVS R0, #1 ; MOVS R0, #0x80000000
      <<EncDataImm("AL", "MOV", 1, 0, 0, 0, 0),
        EncDataImm("AL", "MOV", 1, 0, 0, 0, 1),
        EncDataImm("AL", "MOV", 1, 0, 0, 1, 2)>>,
      \* MVN R0, #0 ; ADDS R1, R0, #1 ; ADD R1, R0, #1
      <<EncDataImm("AL", "MVN", 0, 0, 0, 0, 0),
        EncDataImm("AL", "ADD", 1, 0, 1, 0, 1),
        EncDataImm("AL", "ADD", 0, 0, 1, 0, 1)>>,
      \* MVN R0, #0x80000000 ; ADDS R1, R0, #1 ; CMN R0, #1
      <<EncDataImm("AL", "MVN", 0, 0, 0, 1, 2),
        EncDataImm("AL", "ADD", 1, 0, 1, 0, 1),
        EncDataImm("AL", "CMN", 1, 0, 0, 0, 1)>>,
      \* CMP R0, R0 ; BEQ -4 ; MOV R0, R0
      <<EncDataReg("AL", "CMP", 1, 0, 0, 0, 0), EncBranch("EQ", 0, -1), Nop>>,
      \* CMP R0, R0 ; BNE -4 ; MOV R0, R0
      <<EncDataReg("AL", "CMP", 1, 0, 0, 0, 0), EncBranch("NE", 0, -1), Nop>>,
      \* B +8 ; MOV R0, R0 ; MOV R3, #5
      <<EncBranch("AL", 0, 2), Nop, EncDataImm("AL", "MOV", 0, 0, 3, 0, 5)>>,
      \* BL +8 ; MOV R0, R0 ; BX LR
      <<EncBranch("AL", 1, 2), Nop, EncBX("AL", 14)>>,
      \* BL -4 ; MOV R0, R0 ; MOV R0, R0
      <<EncBranch("AL", 1, -1), Nop, Nop>>,
      \* MOV R1, #64 ; STR R0, [R1] ; STRB R0, [R1, #-51]!
      <<EncDataImm("AL", "MOV", 0, 0, 1, 0, 64),
        EncMemImm("AL", 1, 1, 0, 0, 0, 1, 0, 0),
        EncMemImm("AL", 1, 0, 1, 1, 0, 1, 0, 51)>>,
      \* STR R3, [R0, #16] ; LDR R3, [R0, #16] ; LDRB R3, [R0, #16]
      <<EncMemImm("AL", 1, 1, 0, 0, 0, 0, 3, 16),
        EncMemImm("AL", 1, 1, 0, 0, 1, 0, 3, 16),
        EncMemImm("AL", 1, 1, 1, 0, 1, 0, 3, 16)>>,
      \* MVNS R0, #0 ; MOVPL R1, #1 ; STRNV R0, [R0]
      <<EncDataImm("AL", "MVN", 1, 0, 0, 0, 0),
        EncDataImm("PL", "MOV", 0, 0, 1, 0, 1),
        EncMemImm("NV", 1, 1, 0, 0, 0, 0, 0, 0)>>,
      \* MOV R3, #5 ; BLMI +4 ; MOV R3, #7
      <<EncDataImm("AL", "MOV", 0, 0, 3, 0, 5),
        EncBranch("MI", 1, 1),
        EncDataImm("AL", "MOV", 0, 0, 3, 0, 7)>> }

\* Programs on the shifter: register operands at LSL #0 and under ASR.
ShiftPrograms ==
    { \* MVN R0, #0 ; ADDS R1, R0, #1 ; MOVS R2, R0
      <<EncDataImm("AL", "MVN", 0, 0, 0, 0, 0),
        EncDataImm("AL", "ADD", 1, 0, 1, 0, 1),
        EncDataReg("AL", "MOV", 1, 0, 2, 0, 0)>>,
      \* MVN R0, #0x40000000 ; MOV R1, R0, ASR #1 ; MOVS R2, R0, ASR #4
      <<EncDataImm("AL", "MVN", 0, 0, 0, 1, 1),
        EncDataReg("AL", "MOV", 0, 0, 1, 12, 0),
        EncDataReg("AL", "MOV", 1, 0, 2, 36, 0)>>,
      \* MOV R1, R0, ASR #31 ; MOVS R2, R0 ; MOVS R2, R0, ASR #1
      <<EncDataReg("AL", "MOV", 0, 0, 1, 252, 0),
        EncDataReg("AL", "MOV", 1, 0, 2, 0, 0),
        EncDataReg("AL", "MOV", 1, 0, 2, 12, 0)>> }

ShiftImages ==
    { [start |-> [CODE |-> 0, DATA |-> 16], end |-> [CODE |-> 12, DATA |-> 20],
       data |-> [CODE |-> p[1] \o p[2] \o p[3], DATA |-> <<255, 127, 0, 128>>]]
      : p \in ShiftPrograms }

\* The memory images given to the constructor (memcontent): a program in
\* CODE at 0 and four bytes in DATA at 16, with a hole between them; an
\* image whose sections leave address 0 out and are not in address order;
\* and an image whose section at 0 is two bytes long.
Images ==
    { [start |-> [CODE |-> 0, DATA |-> 16], end |-> [CODE |-> 12, DATA |-> 20],
       data |-> [CODE |-> p[1] \o p[2] \o p[3], DATA |-> <<255, 127, 0, 128>>]]
      : p \in Programs }
    \cup
    { [start |-> [A |-> 8, B |-> 2], end |-> [A |-> 12, B |-> 6],
       data |-> [A |-> Nop, B |-> <<1, 2, 3, 4>>]],
      [start |-> [A |-> 0, B |-> 8], end |-> [A |-> 2, B |-> 12],
       data |-> [A |-> <<1, 2>>, B |-> Nop]] }

\* The words given to HalfSignedMemOp; R0 is the base, 0 at first, and the
\* bytes at 16..19 are 0xFF 0x7F 0x00 0x80.
HalfWords ==
    { EncHalfImm("AL", 1, 1, 0, 1, 0, 2, 1, 0, 16),     \* LDRSB R2, [R0, #16]
      EncHalfImm("AL", 1, 1, 0, 1, 0, 2, 1, 0, 17),     \* LDRSB R2, [R0, #17]
      EncHalfImm("AL", 1, 1, 0, 1, 0, 2, 1, 1, 16),     \* LDRSH R2, [R0, #16]
      EncHalfImm("AL", 1, 1, 0, 1, 0, 2, 1, 1, 18),     \* LDRSH R2, [R0, #18]
      EncHalfImm("AL", 1, 1, 0, 1, 0, 2, 0, 1, 18),     \* LDRH R2, [R0, #18]
      EncHalfImm("AL", 1, 1, 0, 1, 0, 2, 0, 0, 16),     \* unsigned byte load
      EncHalfImm("AL", 1, 1, 1, 1, 0, 2, 1, 0, 13),     \* LDRSB R2, [R0, #13]!
      EncHalfImm("AL", 1, 1, 1, 0, 0, 2, 0, 1, 13),     \* STRH R2, [R0, #13]!
      EncHalfImm("AL", 1, 1, 0, 0, 0, 15, 0, 1, 16),    \* STRH PC, [R0, #16]
      EncHalfImm("EQ", 1, 1, 0, 1, 0, 2, 1, 0, 16),     \* LDRSBEQ R2, [R0, #16]
      EncHalfImm("AL", 0, 1, 0, 1, 0, 2, 1, 1, 16),     \* LDRSH R2, [R0], #16
      EncHalfReg("AL", 1, 1, 0, 1, 0, 2, 1, 0, 1),      \* LDRSB R2, [R0, R1]
      EncHalfImm("AL", 1, 1, 0, 1, 0, 2, 0, 1, 80),     \* LDRH R2, [R0, #80]
      Nop }                                             \* not such a transfer

\* Programs with calls, for the stepping session: a call whose callee has a
\* body and an inner call and return, and a call on PL made with N set.
StepImages ==
    { [start |-> [CODE |-> 0], end |-> [CODE |-> 28],
       data |-> [CODE |-> EncBranch("AL", 1, 3)                   \* 0: BL 12
                          \o Nop \o Nop
                          \o EncDataImm("AL", "MOV", 0, 0, 3, 0, 5) \* 12: MOV R3, #5
                          \o EncBranch("AL", 1, 2)                \* 16: BL 24
                          \o EncBX("AL", 14)                      \* 20: BX LR
                          \o EncBX("AL", 14)]],                   \* 24: BX LR
      [start |-> [CODE |-> 0], end |-> [CODE |-> 16],
       data |-> [CODE |-> EncDataImm("AL", "MVN", 1, 0, 0, 0, 0)  \* 0: MVNS R0, #0
                          \o EncBranch("PL", 1, 2)                \* 4: BLPL 12
                          \o Nop
                          \o EncBX("NV", 14)]] }                  \* 12: BXNV LR

\* The image HalfSignedMemOp works on
HalfImages ==
    { [start |-> [CODE |-> 0, DATA |-> 16], end |-> [CODE |-> 12, DATA |-> 20],
       data |-> [CODE |-> Nop \o Nop \o Nop, DATA |-> <<255, 127, 0, 128>>]] }

\* Values written by the driver: negative, in range, and beyond 32 bits.
WriteVals == {FromInt(-1), FromInt(16), W(32767, 65535), W(2^16 + 4660, 22136)}

RegWriteIds == {0, 15}

\* Addresses of the driver's Memory.set calls: in CODE and, with 4 bytes,
\* across its end; in the hole; in DATA and, with 4 bytes, across maxAddr;
\* negative.
MemAddrs == {FromInt(10), FromInt(13), FromInt(17), FromInt(-1)}

\* 0x12345678 with a bit above the 32nd
MemVals == {W(2^16 + 4660, 22136)}

Sizes == {1, 2, 4}

BkptAddrs == {4, 16}

---------------------------------------------------------------------------
(* The state machine: the state after Simulator.__init__, and one action   *)
(* per call of the driver.                                                 *)

NoInstr == [t |-> "none", cond |-> "AL", misc |-> [none |-> TRUE]]

\* What `last` records of a call: its name and arguments, the PC it found,
\* and for nextInstr the instruction decoded and whether its condition was
\* met.
Call(op, args) ==
    [op |-> op, args |-> args, pc |-> regs[15], I |-> NoInstr, met |-> FALSE]

\* The simulator built on the image img
InitImage(img) ==
    /\ startAddr = img.start
    /\ endAddr = img.end
    /\ data = img.data
    /\ initdata = img.data
    /\ history = <<>>
    /\ breakpoints = [a \in 0..(maxAddr - 1) |-> 0]
    /\ regs = [i \in RegIds |-> Zero]
    /\ regbkpt = [i \in RegIds |-> 0]
    /\ flags = [n \in FlagNames |-> FALSE]
    /\ flagbkpt = [n \in FlagNames |-> 0]
    /\ breakpointTrigged = FALSE
    /\ breakpointInfo = None
    /\ state = "uninitialized"
    /\ countCycle = 0
    /\ stepMode = "None"
    /\ stepCondition = 0
    /\ fetchedInstr = None
    /\ exc = "none"
    /\ thrown = <<>>
    /\ last = [op |-> "init", args |-> <<>>, pc |-> Zero, I |-> NoInstr,
               met |-> FALSE]
    /\ nCalls = 0
    /\ nCycles = 0

Init == \E img \in Images : InitImage(img)

DoReset ==
    /\ Commit(SimReset(Cur))
    /\ last' = Call("reset", <<>>)
    /\ UNCHANGED <<nCalls, nCycles>>

\* nextInstr decodes self.fetchedInstr, which reset has to have loaded.
NextInstrCall ==
    /\ fetchedInstr # None
    /\ Commit(SimNextInstr(Cur))
    /\ LET I == BytecodeToInstrInfos(fetchedInstr)
       IN last' = [Call("nextInstr", <<>>) EXCEPT
                       !.I = I, !.met = ~CondNotMet(Cur, I.cond).v]
    /\ nCycles' = nCycles + 1
    /\ UNCHANGED nCalls

DoNextInstr ==
    /\ nCycles < MaxCycles
    /\ NextInstrCall

\* isStepDone throws nothing and raises nothing: what the last call left on
\* the bus, and `last`, stay.
DoIsStepDone ==
    /\ Commit([SimIsStepDone(Cur).s EXCEPT !.exc = exc, !.thrown = thrown])
    /\ UNCHANGED <<last, nCalls, nCycles>>

DoSetStepCondition(mode) ==
    /\ nCalls < MaxCalls
    /\ Commit(SimSetStepCondition(Cur, mode))
    /\ last' = Call("setStepCondition", <<mode>>)
    /\ nCalls' = nCalls + 1
    /\ UNCHANGED nCycles

DoRegisterSet(id, val) ==
    /\ nCalls < MaxCalls
    /\ Commit(RegSet(Cur, id, val))
    /\ last' = Call("Register.set", <<id, val>>)
    /\ nCalls' = nCalls + 1
    /\ UNCHANGED nCycles

DoFlagSet(name, val) ==
    /\ nCalls < MaxCalls
    /\ Commit(FlagSet(Cur, name, val))
    /\ last' = Call("Flag.set", <<name, val>>)
    /\ nCalls' = nCalls + 1
    /\ UNCHANGED nCycles

DoMemorySet(addr, val, size) ==
    /\ nCalls < MaxCalls
    /\ Commit(MemSet(Cur, addr, val, size))
    /\ last' = Call("Memory.set", <<addr, val, size>>)
    /\ nCalls' = nCalls + 1
    /\ UNCHANGED nCycles

\* Memory.setBreakpoint
DoSetBreakpoint(addr, modeOctal) ==
    /\ nCalls < MaxCalls
    /\ addr \in DOMAIN breakpoints
    /\ Commit([Cur EXCEPT !.breakpoints[addr] = modeOctal])
    /\ last' = Call("setBreakpoint", <<addr, modeOctal>>)
    /\ nCalls' = nCalls + 1
    /\ UNCHANGED nCycles

\* Memory.removeBreakpoint
DoRemoveBreakpoint(addr) ==
    /\ nCalls < MaxCalls
    /\ addr \in DOMAIN breakpoints
    /\ Commit([Cur EXCEPT !.breakpoints[addr] = 0])
    /\ last' = Call("removeBreakpoint", <<addr>>)
    /\ nCalls' = nCalls + 1
    /\ UNCHANGED nCycles

\* The driver assigns Register.breakpoint
DoSetRegisterBreakpoint(id, mode) ==
    /\ nCalls < MaxCalls
    /\ Commit([Cur EXCEPT !.regbkpt[id] = mode])
    /\ last' = Call("Register.breakpoint", <<id, mode>>)
    /\ nCalls' = nCalls + 1
    /\ UNCHANGED nCycles

\* The driver assigns Flag.breakpoint
DoSetFlagBreakpoint(name, mode) ==
    /\ nCalls < MaxCalls
    /\ Commit([Cur EXCEPT !.flagbkpt[name] = mode])
    /\ last' = Call("Flag.breakpoint", <<name, mode>>)
    /\ nCalls' = nCalls + 1
    /\ UNCHANGED nCycles

Next ==
    \/ DoReset
    \/ DoNextInstr
    \/ DoIsStepDone
    \/ \E mode \in {"forward", "out"} : DoSetStepCondition(mode)
    \/ \E id \in RegWriteIds, val \in WriteVals : DoRegisterSet(id, val)
    \/ \E name \in FlagNames, val \in BOOLEAN : DoFlagSet(name, val)
    \/ \E addr \in MemAddrs, val \in MemVals, size \in Sizes :
           DoMemorySet(addr, val, size)
    \/ \E addr \in BkptAddrs, m \in {2, 4, 5} : DoSetBreakpoint(addr, m)
    \/ \E addr \in BkptAddrs : DoRemoveBreakpoint(addr)
    \/ \E id \in {3, 14, 15}, m \in {2, 4} : DoSetRegisterBreakpoint(id, m)
    \/ \E name \in {"Z"}, m \in {2, 4} : DoSetFlagBreakpoint(name, m)

Spec == Init /\ [][Next]_vars

\* A debugging session: the driver arms watchpoints on registers and asks
\* for a step, in any order with reset and the cycles, and makes no other
\* direct call.  Arming and stepping together take one call more than the
\* direct calls of Spec.
DbgSetStepCondition(mode) ==
    /\ nCalls < MaxCalls + 1
    /\ Commit(SimSetStepCondition(Cur, mode))
    /\ last' = Call("setStepCondition", <<mode>>)
    /\ nCalls' = nCalls + 1
    /\ UNCHANGED nCycles

DbgSetRegisterBreakpoint(id, mode) ==
    /\ nCalls < MaxCalls + 1
    /\ Commit([Cur EXCEPT !.regbkpt[id] = mode])
    /\ last' = Call("Register.breakpoint", <<id, mode>>)
    /\ nCalls' = nCalls + 1
    /\ UNCHANGED nCycles

NextDbg ==
    \/ DoReset
    \/ DoNextInstr
    \/ DoIsStepDone
    \/ \E mode \in {"forward", "out"} : DbgSetStepCondition(mode)
    \/ \E id \in {3, 14, 15}, m \in {2, 4, 6} : DbgSetRegisterBreakpoint(id, m)

SpecDbg == Init /\ [][NextDbg]_vars

\* Runs of the programs on the shifter: the driver may write R0 and C.
InitShift == \E img \in ShiftImages : InitImage(img)

NextShift ==
    \/ DoReset
    \/ DoNextInstr
    \/ \E val \in WriteVals : DoRegisterSet(0, val)
    \/ \E val \in BOOLEAN : DoFlagSet("C", val)

SpecShift == InitShift /\ [][NextShift]_vars

\* A stepping session over a program with calls: the driver asks for a
\* step, may watch R3 or R14 for writes, runs cycles and asks isStepDone.
InitStep == \E img \in StepImages : InitImage(img)

StepNextInstr ==
    /\ nCycles < MaxStepCycles
    /\ NextInstrCall

NextStep ==
    \/ DoReset
    \/ StepNextInstr
    \/ DoIsStepDone
    \/ \E mode \in {"forward", "out"} : DbgSetStepCondition(mode)
    \/ \E id \in {3, 14} : DbgSetRegisterBreakpoint(id, 2)

SpecStep == InitStep /\ [][NextStep]_vars

\* The half-word and signed transfers: the driver decodes a word as a
\* HalfSignedMemOp and executes it on the simulator, and writes R1 and Z
\* in between.
InitHalf == \E img \in HalfImages : InitImage(img)

DoHalfSignedMemOp(bc, special) ==
    /\ nCycles < MaxCycles
    /\ Commit(HalfSignedMemOp(Cur, bc, special))
    /\ last' = [Call("HalfSignedMemOp", <<bc, special>>) EXCEPT
                    !.I = [t |-> "half", cond |-> HalfDecode(bc).condition,
                           misc |-> HalfDecode(bc)],
                    !.met = /\ HalfDecode(bc).ok
                            /\ CheckCondition(Cur, HalfDecode(bc).condition)]
    /\ nCycles' = nCycles + 1
    /\ UNCHANGED nCalls

\* The settings of PCSpecialBehavior tried with the word bc: execute reads
\* it only when Rd is PC.
HalfSpecials(bc) == IF HalfDecode(bc).rd = 15 THEN BOOLEAN ELSE {FALSE}

NextHalf ==
    \/ \E bc \in HalfWords : \E special \in HalfSpecials(bc) :
           DoHalfSignedMemOp(bc, special)
    \/ DoRegisterSet(1, FromInt(16))
    \/ DoFlagSet("Z", TRUE)

SpecHalf == InitHalf /\ [][NextHalf]_vars

---------------------------------------------------------------------------
(* Properties *)

\* The step is one nextInstr call: only DoNextInstr counts a cycle.
CycleStep == nCycles' = nCycles + 1

\* The elements of a sequence
Range(seq) == {seq[i] : i \in DOMAIN seq}

\* C1: in every reachable state, whatever reset, nextInstr and
\* Register.set calls (with negative arguments and arguments of 2^32 and
\* more) came before, each of the 16 registers holds a value in [0, 2^32).
C1_RegistersAre32Bit == \A i \in RegIds : IsU32(regs[i])

\* Register.set was just called with a value outside [0, 2^32), and the
\* register holds its low 32 bits.
C1_Witness ==
    /\ last.op = "Register.set"
    /\ ~IsU32(last.args[2])
    /\ regs[last.args[1]] = Mask32(last.args[2])

\* The low `size` bytes of val, least significant first
LowBytes(val, size) ==
    SubSeq(<<val.lo % 256, val.lo \div 256, val.hi % 256, (val.hi \div 256) % 256>>,
           1, size)

\* The byte at address a, or -1 where no section holds it
ByteAt(mem, a) ==
    IF \E sec \in Secs : startAddr[sec] <= a /\ a < endAddr[sec]
    THEN LET sec == CHOOSE x \in Secs : startAddr[x] <= a /\ a < endAddr[x]
         IN mem[sec][a - startAddr[sec] + 1]
    ELSE -1

\* C2: after Memory.set(addr, val, size) with [addr, addr+size) inside one
\* section, the call returns normally, Memory.get(addr, size) returns (reads
\* from the section) the low size bytes of val, least significant first; the
\* other bytes of memory and the length of every
\* section are as before.
C2_SetThenGet ==
    [][(last'.op = "Memory.set" /\ nCalls' = nCalls + 1
        /\ GetRelativeAddr(last'.args[1], last'.args[3]) # None)
       => LET addr == last'.args[1]
              val == last'.args[2]
              size == last'.args[3]
              a == ToInt(addr)
          IN /\ exc' = "none"
             /\ SubSeq(data'[GetRelativeAddr(addr, size)[1]],
                       GetRelativeAddr(addr, size)[2] + 1,
                       GetRelativeAddr(addr, size)[2] + size) = LowBytes(val, size)
             /\ \A x \in 0..(maxAddr - 1) :
                    x \notin a..(a + size - 1) => ByteAt(data', x) = ByteAt(data, x)
             /\ \A sec \in Secs : Len(data'[sec]) = Len(data[sec])]_vars

\* C3: Memory.serialize() is maxAddr bytes long; a byte at an address inside
\* a section is that section's byte there, and a byte outside every section
\* is 0.
C3_Serialize ==
    LET image == Serialize(data)
    IN /\ Len(image) = maxAddr
       /\ \A a \in 0..(maxAddr - 1) :
              image[a + 1] = IF ByteAt(data, a) = -1 THEN 0 ELSE ByteAt(data, a)

\* A Memory.set call went past the address resolution and logged its write.
C3_Witness == last.op = "Memory.set" /\ history # <<>>

\* The instruction a nextInstr call executes: the decoded fetched word
CycleInstr == BytecodeToInstrInfos(fetchedInstr)

\* What a cycle leaves alone when it only advances: R0..R14, the flags, the
\* memory bytes and the call depth; PC is 4 further and one more cycle is
\* counted.
OnlyAdvances ==
    /\ \A i \in 0..14 : regs'[i] = regs[i]
    /\ flags' = flags
    /\ data' = data
    /\ stepCondition' = stepCondition
    /\ regs'[15] = Mask32(AddI(regs[15], 4))
    /\ countCycle' = countCycle + 1

\* C4: a nextInstr cycle on a branch, data or memory instruction whose
\* condition code is false under the flags leaves R0..R14, the four flags,
\* the memory bytes and the call depth unchanged; PC increases by 4 and
\* countCycle by 1.
C4_ConditionFalseFrame ==
    [][(CycleStep
        /\ CycleInstr.t \in {"branch", "dataop", "memop"}
        /\ ~StdCondHolds(CycleInstr.cond, flags))
       => OnlyAdvances]_vars

\* The second operand of a data operation, as execInstr computes it
DataOp2(s, misc) ==
    IF misc.imm
    THEN IF misc.op2[2][3] # 0
         THEN ShiftVal(s, FromInt(misc.op2[1]), misc.op2[2]).val
         ELSE FromInt(misc.op2[1])
    ELSE ShiftVal(s, s.regs[misc.op2[1]], misc.op2[2]).val

\* res of a data operation, as execInstr computes it
DataResOf(s, misc) ==
    DataRes(misc.opcode, s.regs[misc.rn], DataOp2(s, misc), CarryIn(s))

\* The step is a nextInstr call that executed a data operation to its end.
DataOpStep ==
    /\ CycleStep
    /\ CycleInstr.t = "dataop"
    /\ last'.met
    /\ exc' = "none"

\* C6: after an executed data operation with setflags, Z is true exactly
\* when res mod 2^32 is 0 and N is true exactly when bit 31 of res is set,
\* whatever they were before; without setflags Z and N are unchanged.
C6_ZNFollowResult ==
    [][DataOpStep
       => LET res == DataResOf(Cur, CycleInstr.misc)
          IN IF CycleInstr.misc.setflags
             THEN /\ flags'["Z"] <=> IsZero(Mask32(res))
                  /\ flags'["N"] <=> Bit(res, 31) = 1
             ELSE /\ flags'["Z"] = flags["Z"]
                  /\ flags'["N"] = flags["N"]]_vars

\* C7: after an executed ADD, CMN or ADC with setflags, C is true exactly
\* when the sum carries out of bit 31 and V is true exactly when the
\* operands have equal sign bits and the sign bit of the result differs from
\* them; ADD(0x7FFFFFFF, 1) leaves V=1, N=1, C=0, Z=0 and ADD(0xFFFFFFFF, 1)
\* leaves C=1, Z=1, N=0, V=0.
C7_AddCarryOverflow ==
    [][(DataOpStep
        /\ CycleInstr.misc.opcode \in {"ADD", "CMN", "ADC"}
        /\ CycleInstr.misc.setflags)
       => LET misc == CycleInstr.misc
              op1 == regs[misc.rn]
              op2 == DataOp2(Cur, misc)
              res == DataResOf(Cur, misc)
          IN /\ flags'["C"] <=> Bit(res, 32) = 1
             /\ flags'["V"] <=> /\ Bit(op1, 31) = Bit(op2, 31)
                                /\ Bit(res, 31) # Bit(op1, 31)
             /\ (misc.opcode = "ADD" /\ op1 = W(32767, 65535) /\ op2 = FromInt(1))
                    => flags' = [Z |-> FALSE, V |-> TRUE, C |-> FALSE, N |-> TRUE]
             /\ (misc.opcode = "ADD" /\ op1 = W(65535, 65535) /\ op2 = FromInt(1))
                    => flags' = [Z |-> TRUE, V |-> FALSE, C |-> TRUE, N |-> FALSE]]_vars

\* The step is a nextInstr call that executed an immediate branch.
TakenImmBranch ==
    /\ CycleStep
    /\ CycleInstr.t = "branch"
    /\ CycleInstr.misc.mode = "imm"
    /\ last'.met
    /\ exc' = "none"

\* The 4 bytes of mem at addr, or None where no section holds them
WordAt(mem, addr) ==
    LET resolvedAddr == GetRelativeAddr(addr, 4)
    IN IF resolvedAddr = None THEN None
       ELSE SubSeq(mem[resolvedAddr[1]], resolvedAddr[2] + 1, resolvedAddr[2] + 4)

\* C5 as stated: after a taken immediate branch with offset d executed at
\* PC = p, PC is (p + d) mod 2^32 and the word the next nextInstr executes is
\* the word at address p + d; with the link bit R14 is p + 4, without it R14
\* is unchanged.
C5_BranchAsStated ==
    [][TakenImmBranch
       => LET p == regs[15]
              misc == CycleInstr.misc
          IN /\ regs'[15] = Mask32(AddI(p, misc.offset))
             /\ fetchedInstr' = WordAt(data', AddI(p, misc.offset))
             /\ IF misc.L THEN regs'[14] = AddI(p, 4)
                ELSE regs'[14] = regs[14]]_vars

\* C5, amended: after a taken immediate branch with offset d executed at
\* PC = p, PC is (p + d) mod 2^32; the word the next nextInstr executes is
\* the word at that address when its 4 bytes lie inside a section, and the
\* word fetched before otherwise; with the link bit R14 is (p + 4) mod 2^32,
\* without it R14 is unchanged.
C5_BranchTarget ==
    [][TakenImmBranch
       => LET p == regs[15]
              misc == CycleInstr.misc
              target == Mask32(AddI(p, misc.offset))
          IN /\ regs'[15] = target
             /\ fetchedInstr' = IF WordAt(data', target) # None
                                THEN WordAt(data', target) ELSE fetchedInstr
             /\ IF misc.L THEN regs'[14] = Mask32(AddI(p, 4))
                ELSE regs'[14] = regs[14]]_vars

\* A BL was just executed: PC is at its target, the word there is fetched
\* and R14 holds the address after the branch.
C5_Witness ==
    /\ last.op = "nextInstr"
    /\ last.I.t = "branch"
    /\ last.I.misc.mode = "imm"
    /\ last.I.misc.L
    /\ last.met
    /\ exc = "none"
    /\ regs[15] = Mask32(AddI(last.pc, last.I.misc.offset))
    /\ WordAt(data, regs[15]) # None
    /\ fetchedInstr = WordAt(data, regs[15])
    /\ regs[14] = Mask32(AddI(last.pc, 4))

\* CMP Rn, Rn with setflags
CmpSelf(I) ==
    /\ I.t = "dataop"
    /\ I.misc.opcode = "CMP"
    /\ I.misc.setflags
    /\ ~I.misc.imm
    /\ I.misc.op2 = <<I.misc.rn, <<"LSL", "imm", 0>> >>

\* Where a taken branch leads
BranchTarget(misc) ==
    IF misc.mode = "imm" THEN Mask32(AddI(regs[15], misc.offset))
    ELSE regs[misc.offset]

\* C8: an executed CMP Rn, Rn sets Z and leaves Rn as it was; a branch on EQ
\* executed by the next nextInstr moves PC to its target, a branch on NE
\* executed by the next nextInstr only advances PC by 4.
C8_CmpThenBranch ==
    [][/\ (CycleStep /\ CmpSelf(CycleInstr) /\ last'.met /\ exc' = "none")
          => /\ flags'["Z"]
             /\ CycleInstr.misc.rn # 15
                    => regs'[CycleInstr.misc.rn] = regs[CycleInstr.misc.rn]
       /\ (/\ last.op = "nextInstr" /\ CmpSelf(last.I) /\ last.met /\ exc = "none"
           /\ CycleStep /\ CycleInstr.t = "branch" /\ exc' = "none")
          => /\ CycleInstr.cond = "EQ"
                    => regs'[15] = BranchTarget(CycleInstr.misc)
             /\ CycleInstr.cond = "NE"
                    => regs'[15] = Mask32(AddI(regs[15], 4))]_vars

\* Two cycles after reset, with no other call: CMP R0, R0 at address 0 ran,
\* then the BEQ at address 4 was taken, back to address 0.
C8_Witness ==
    /\ "CODE" \in DOMAIN data
    /\ CmpSelf(BytecodeToInstrInfos(SubSeq(data["CODE"], 1, 4)))
    /\ nCalls = 0
    /\ countCycle = 2
    /\ last.op = "nextInstr"
    /\ last.pc = FromInt(4)
    /\ last.I.t = "branch"
    /\ last.I.cond = "EQ"
    /\ last.met
    /\ flags["Z"]
    /\ regs[15] = FromInt(0)

\* The addresses of a memory operation, as execInstr computes them
MemOpAddr(s, misc) ==
    IF misc.imm THEN AddI(s.regs[misc.base], misc.sign * misc.offset)
    ELSE AddI(s.regs[misc.base],
              misc.sign * ShiftVal(s, s.regs[misc.offset[1]], misc.offset[2]).carry)

MemOpRealAddr(s, misc) ==
    IF misc.pre THEN MemOpAddr(s, misc) ELSE s.regs[misc.base]

MemOpSize(misc) == IF misc.byte THEN 1 ELSE 4

\* C10: an executed STR whose bytes [addr, addr+size) are not inside one
\* section throws the event (memory, 8, addr), leaves the memory bytes and
\* the write log as they were, and its cycle adds exactly 1 to countCycle.
C10_StoreOutside ==
    [][(/\ CycleStep
        /\ CycleInstr.t = "memop"
        /\ CycleInstr.misc.mode = "STR"
        /\ last'.met
        /\ CycleInstr.misc.imm \/ exc' = "none"
        /\ GetRelativeAddr(MemOpRealAddr(Cur, CycleInstr.misc),
                           MemOpSize(CycleInstr.misc)) = None)
       => /\ exc' = "none"
          /\ BkptInfo("memory", 8, MemOpRealAddr(Cur, CycleInstr.misc))
                 \in Range(thrown')
          /\ data' = data
          /\ history' = history
          /\ countCycle' = countCycle + 1]_vars

\* A STR to an address outside the sections was just executed.
C10_Witness ==
    /\ last.op = "nextInstr"
    /\ last.I.t = "memop"
    /\ last.I.misc.mode = "STR"
    /\ last.met
    /\ exc = "none"
    /\ \E e \in Range(thrown) :
           /\ e[1] = "memory"
           /\ e[2] = 8
           /\ e[3] = regs[last.I.misc.base]
           /\ GetRelativeAddr(e[3], MemOpSize(last.I.misc)) = None
    /\ history = <<>>

\* The opcodes that write no result
Comparisons == {"TST", "TEQ", "CMP", "CMN"}

\* The executed instruction I writes register r before execInstr returns.
InstrWrites(s, I, r) ==
    CASE I.t = "dataop" -> I.misc.opcode \notin Comparisons /\ I.misc.rd = r
      [] I.t = "branch" -> r = 15 \/ (I.misc.L /\ r = 14)
      [] I.t = "memop" ->
            LET resolved == GetRelativeAddr(MemOpRealAddr(s, I.misc),
                                            MemOpSize(I.misc)) # None
            IN \/ I.misc.mode = "LDR" /\ resolved /\ I.misc.rd = r
               \/ /\ I.misc.writeback /\ I.misc.base = r
                  /\ I.misc.mode = "STR" \/ resolved
      [] OTHER -> FALSE

\* The value the executed instruction I writes last to register r
InstrValue(s, I, r) ==
    CASE I.t = "dataop" -> Mask32(DataResOf(s, I.misc))
      [] I.t = "branch" ->
            IF r = 14 THEN Mask32(AddI(s.regs[15], 4))
            ELSE IF I.misc.mode = "imm"
            THEN Mask32(AddI(s.regs[15], I.misc.offset - 4))
            ELSE Mask32(AddI(s.regs[I.misc.offset], -4))
      [] I.t = "memop" ->
            IF I.misc.writeback /\ I.misc.base = r
            THEN Mask32(MemOpAddr(s, I.misc))
            ELSE UnpackI(WordAt(s.data, MemOpRealAddr(s, I.misc)))

\* The value of r when the cycle ends: nextInstr adds 4 to PC afterwards.
CycleValue(s, I, r) ==
    IF r = 15 THEN Mask32(AddI(InstrValue(s, I, r), 4)) ELSE InstrValue(s, I, r)

\* The step is a nextInstr call whose instruction was executed to its end
\* and wrote register r, on which a write watchpoint is set.
WatchedWrite(r) ==
    /\ CycleStep
    /\ last'.met
    /\ exc' = "none"
    /\ HasBit(regbkpt[r], 2)
    /\ InstrWrites(Cur, CycleInstr, r)

\* The cycle ends with the bus triggered, stepMode cleared so that
\* isStepDone() returns true, and r holding the value written.
HaltsWithValue(r) ==
    /\ breakpointTrigged'
    /\ stepMode' = "None"
    /\ SimIsStepDone([stepMode |-> stepMode', stepCondition |-> stepCondition']).v
    /\ regs'[r] = CycleValue(Cur, CycleInstr, r)

\* C9 as stated: when register r has its write watchpoint bit set, a
\* nextInstr cycle whose instruction writes r ends with the bus triggered
\* and the event (register, 2, r) latched, stepMode cleared so that
\* isStepDone() returns true, and r holding the value written.
C9_WatchLatched ==
    [][\A r \in RegIds :
           WatchedWrite(r)
           => /\ HaltsWithValue(r)
              /\ breakpointInfo' = BkptInfo("register", 2, r)]_vars

\* C9, amended: when register r has its write watchpoint bit set, a
\* nextInstr cycle whose instruction writes r throws the event
\* (register, 2, r) and ends with the bus triggered, the latch holding the
\* last event thrown in the cycle (that event unless a later one replaced
\* it), stepMode cleared so that isStepDone() returns true, and r holding
\* the value written.
C9_WatchFires ==
    [][\A r \in RegIds :
           WatchedWrite(r)
           => /\ HaltsWithValue(r)
              /\ BkptInfo("register", 2, r) \in Range(thrown')
              /\ breakpointInfo' = thrown'[Len(thrown')]]_vars

\* A step was asked for and R3 is watched for writes; the first cycle after
\* reset executed MOV R3, #5: the event is latched, the step mode is
\* cleared and R3 holds 5.
C9_Witness ==
    /\ last.op = "nextInstr"
    /\ last.I.t = "dataop"
    /\ last.I.misc.opcode = "MOV"
    /\ last.I.misc.rd = 3
    /\ last.met
    /\ HasBit(regbkpt[3], 2)
    /\ countCycle = 1
    /\ stepCondition = 1
    /\ breakpointTrigged
    /\ breakpointInfo = BkptInfo("register", 2, 3)
    /\ stepMode = "None"
    /\ regs[3] = FromInt(5)

\* The step decodes and executes one HalfSignedMemOp.
HalfStep == last'.op = "HalfSignedMemOp" /\ nCycles' = nCycles + 1

\* The address the transfer op accesses
HalfAccessAddr(op) == HalfRealAddr(Cur, op, HalfAddr(Cur, op).v)

\* The bytes of mem at [addr, addr+size), or None where no section holds
\* them
BytesAt(mem, addr, size) ==
    LET resolvedAddr == GetRelativeAddr(addr, size)
    IN IF resolvedAddr = None THEN None
       ELSE SubSeq(mem[resolvedAddr[1]], resolvedAddr[2] + 1,
                   resolvedAddr[2] + size)

\* The unsigned value of 1 or 2 bytes, least significant first
Unsigned(m) == IF Len(m) = 1 THEN m[1] ELSE m[1] + 256 * m[2]

\* v of `size` bytes, sign-extended to 32 bits
SignExtended(v, size) ==
    IF size = 1
    THEN (IF v >= 128 THEN W(65535, 65280 + v) ELSE FromInt(v))
    ELSE (IF v >= 32768 THEN W(65535, v) ELSE FromInt(v))

\* C11: an executed half-word or signed LDR leaves in the destination
\* register the value loaded, sign-extended from bit 7 (byte) or bit 15
\* (half-word) when signed and zero-extended when not; a signed byte load of
\* 0xFF gives 0xFFFFFFFF and of 0x7F gives 0x0000007F.  (The destination is
\* read after the instruction unless the base written back is the same
\* register.)
C11_SignExtension ==
    [][(/\ HalfStep
        /\ last'.met
        /\ exc' = "none"
        /\ last'.I.misc.mode = "LDR"
        /\ ~(last'.I.misc.writeback /\ last'.I.misc.basereg = last'.I.misc.rd))
       => LET op == last'.I.misc
              m == BytesAt(data, HalfAccessAddr(op), HalfSize(op))
          IN /\ m # None
             /\ regs'[op.rd] = IF op.signed
                               THEN SignExtended(Unsigned(m), HalfSize(op))
                               ELSE FromInt(Unsigned(m))
             /\ (op.signed /\ op.byte /\ m = <<255>>)
                    => regs'[op.rd] = W(65535, 65535)
             /\ (op.signed /\ op.byte /\ m = <<127>>)
                    => regs'[op.rd] = FromInt(127)]_vars

\* A signed byte load of 0xFF was just executed and R2 holds 0xFFFFFFFF.
C11_Witness ==
    /\ last.op = "HalfSignedMemOp"
    /\ last.met
    /\ exc = "none"
    /\ last.I.misc.mode = "LDR"
    /\ last.I.misc.signed
    /\ last.I.misc.byte
    /\ last.I.misc.rd = 2
    /\ BytesAt(data, AddI(last.pc, 16), 1) = <<255>>
    /\ last.I.misc.imm /\ last.I.misc.offsetImm = 16 /\ last.I.misc.pre
    /\ last.I.misc.basereg = 0 /\ ~last.I.misc.writeback /\ regs[0] = Zero
    /\ regs[2] = W(65535, 65535)

---------------------------------------------------------------------------
(* Stepping.                                                               *)

\* The step is a nextInstr call that executed a branch with link.
LinkExecuted ==
    CycleStep /\ CycleInstr.t = "branch" /\ last'.met /\ CycleInstr.misc.L

\* The step is a nextInstr call that executed a register-mode branch.
ReturnExecuted ==
    CycleStep /\ CycleInstr.t = "branch" /\ last'.met
              /\ CycleInstr.misc.mode = "reg"

\* The depth a cycle leaves, from the depth it found
DepthAfterCycle ==
    stepCondition + (IF LinkExecuted THEN 1 ELSE 0)
                  - (IF ReturnExecuted THEN 1 ELSE 0)

\* isStepDone() asked in the state the step leaves
StepDoneAfter == SimIsStepDone(Cur)'

\* C12 as stated: isStepDone asked after a cycle is true with no step mode;
\* after a cycle begun in forward mode at depth 1 it is true unless the cycle
\* executed a branch with link, and then it is false and leaves mode out at
\* depth 1; after a cycle begun in mode out it is true exactly when the
\* depth the cycle leaves is 0.
C12_StepDoneAsStated ==
    [][(CycleStep /\ exc' = "none") =>
         /\ stepMode' = "None" => StepDoneAfter.v
         /\ (stepMode = "forward" /\ stepCondition = 1) =>
                IF LinkExecuted
                THEN /\ ~StepDoneAfter.v
                     /\ StepDoneAfter.s.stepMode = "out"
                     /\ StepDoneAfter.s.stepCondition = 1
                ELSE StepDoneAfter.v
         /\ stepMode = "out" =>
                (StepDoneAfter.v <=> DepthAfterCycle = 0)]_vars

\* C12 (amended): the same for the cycles that throw no event on the bus; a
\* cycle that throws one leaves no step mode, and isStepDone is then true
\* whatever the depth.
C12_StepDone ==
    [][(CycleStep /\ exc' = "none") =>
         /\ stepMode' = "None" => StepDoneAfter.v
         /\ breakpointTrigged' => stepMode' = "None"
         /\ (stepMode = "forward" /\ stepCondition = 1 /\ ~breakpointTrigged') =>
                IF LinkExecuted
                THEN /\ ~StepDoneAfter.v
                     /\ StepDoneAfter.s.stepMode = "out"
                     /\ StepDoneAfter.s.stepCondition = 1
                ELSE StepDoneAfter.v
         /\ (stepMode = "out" /\ ~breakpointTrigged') =>
                /\ stepMode' = "out"
                /\ stepCondition' = DepthAfterCycle
                /\ StepDoneAfter.v <=> DepthAfterCycle = 0]_vars

\* A step forward over the call at 0 has run through the callee, its inner
\* call and the inner return, and the return at 20 has just brought the depth
\* back to 0: isStepDone is true, five cycles after the step began.
C12_Witness ==
    /\ last.op = "nextInstr"
    /\ last.I.t = "branch"
    /\ last.I.misc.mode = "reg"
    /\ last.met
    /\ last.pc = FromInt(20)
    /\ countCycle = 5
    /\ stepMode = "out"
    /\ stepCondition = 0
    /\ ~breakpointTrigged
    /\ SimIsStepDone(Cur).v

---------------------------------------------------------------------------
(* The bus.                                                                *)

\* C13: at the end of every nextInstr call the bus is triggered exactly when
\* the call threw at least one event, the latch holds the last event the
\* call threw, and holds nothing (no event of an earlier cycle or of a call
\* made between the cycles) when the call threw none.
C13_BusLatch ==
    [][CycleStep =>
         /\ breakpointTrigged' <=> (thrown' # <<>>)
         /\ breakpointInfo' = IF thrown' = <<>> THEN None
                              ELSE thrown'[Len(thrown')]]_vars

\* With no call but reset and three cycles on B +8 ; MOV R0, R0 ; MOV R3, #5:
\* the second cycle ended on the illegal fetch at 12, which latched an event,
\* and the third, which fetched at 16, threw nothing and left the bus clear.
C13_Witness ==
    /\ nCalls = 0
    /\ nCycles = 3
    /\ countCycle = 3
    /\ last.op = "nextInstr"
    /\ last.pc = FromInt(12)
    /\ regs[15] = FromInt(16)
    /\ regs[3] = FromInt(5)
    /\ exc = "none"
    /\ thrown = <<>>
    /\ ~breakpointTrigged
    /\ breakpointInfo = None

\* The state execInstr leaves in the nextInstr call of the step
AfterExecInstr == ExecInstr(BkptReset(Cur), CycleInstr)

\* The PC nextInstr fetches at: 4 past the PC of the state e execInstr leaves
RefetchPC(e) == Mask32(AddI(e.regs[15], 4))

\* C14: when execInstr returned and the fetch at the new PC is outside the
\* segments, nextInstr does not fail, fetchedInstr keeps its value, the event
\* (memory, 8, PC) is latched on the triggered bus, stepMode is cleared, and
\* PC and countCycle have advanced.
C14_IllegalRefetch ==
    [][CycleStep =>
         LET e == AfterExecInstr
         IN (Ok(e) /\ GetRelativeAddr(RefetchPC(e), 4) = None)
            => /\ exc' = "none"
               /\ fetchedInstr' = fetchedInstr
               /\ breakpointTrigged'
               /\ breakpointInfo' = BkptInfo("memory", 8, regs'[15])
               /\ stepMode' = "None"
               /\ regs'[15] = RefetchPC(e)
               /\ countCycle' = countCycle + 1]_vars

\* A step was asked for on B +8 ; MOV R0, R0 ; MOV R3, #5 and the second
\* cycle has executed MOV R3, #5 at 8: the fetch at 12 is in the hole, the
\* fetched word is still MOV R3, #5, the event is latched and the step mode
\* is gone, with PC at 12 and two cycles counted.
C14_Witness ==
    /\ nCalls = 1
    /\ nCycles = 2
    /\ countCycle = 2
    /\ last.op = "nextInstr"
    /\ last.pc = FromInt(8)
    /\ stepCondition = 1
    /\ stepMode = "None"
    /\ exc = "none"
    /\ regs[15] = FromInt(12)
    /\ regs[3] = FromInt(5)
    /\ GetRelativeAddr(regs[15], 4) = None
    /\ fetchedInstr = EncDataImm("AL", "MOV", 0, 0, 3, 0, 5)
    /\ breakpointTrigged
    /\ breakpointInfo = BkptInfo("memory", 8, FromInt(12))

---------------------------------------------------------------------------
(* The condition table.                                                    *)

\* C15: a nextInstr cycle on a branch, data or memory instruction goes past
\* the condition test of execInstr, and so applies the effects of the
\* instruction, if and only if the condition of the instruction holds in the
\* ARM table under the flags the cycle finds.
C15_ConditionTable ==
    [][(CycleStep /\ CycleInstr.t \in {"branch", "dataop", "memop"})
       => (last'.met <=> StdCondHolds(CycleInstr.cond, flags))]_vars

---------------------------------------------------------------------------
(* The snapshot of the memory.                                             *)

---------------------------------------------------------------------------
(* Accesses outside the sections.                                          *)

\* The step is a nextInstr call that executed a word or byte transfer whose
\* access is outside the sections.
IllegalMemOpStep ==
    /\ CycleStep
    /\ last'.op = "nextInstr"
    /\ CycleInstr.t = "memop"
    /\ last'.met
    /\ CycleInstr.misc.imm \/ exc' = "none"
    /\ GetRelativeAddr(MemOpRealAddr(Cur, CycleInstr.misc),
                       MemOpSize(CycleInstr.misc)) = None

\* The step is a half-word or signed transfer that was executed and whose
\* access is outside the sections.
IllegalHalfStep ==
    /\ HalfStep
    /\ last'.met
    /\ GetRelativeAddr(HalfAccessAddr(last'.I.misc), HalfSize(last'.I.misc)) = None

\* C17: an executed LDR or STR, word, byte, half-word or signed, whose access
\* is outside the sections writes neither Rd nor the base register, with or
\* without writeback: R0..R14 are as before.
C17_IllegalAccessAbandons ==
    [][(IllegalMemOpStep \/ IllegalHalfStep)
       => \A r \in 0..14 : regs'[r] = regs[r]]_vars

---------------------------------------------------------------------------
(* The fetch and the breakpoint masks.                                     *)

\* The step is a nextInstr call that returned, executed no memory transfer
\* and fetched 4 bytes inside a section: its memory events are those of the
\* fetch.
FetchStep ==
    /\ CycleStep
    /\ last'.op = "nextInstr"
    /\ exc' = "none"
    /\ CycleInstr.t # "memop"
    /\ GetRelativeAddr(regs'[15], 4) # None

\* The masks of the 4 bytes fetched
FetchMasks == {MaskAt(Cur, ToInt(regs'[15]) + offset) : offset \in 0..3}

\* C18: a fetch is subject to the execute bit only: when no byte fetched has
\* the execute bit (1), the fetch throws no memory event, whatever the read
\* bits (4) are; when a byte fetched has both bits, the event latched is a
\* memory event of mode 1.
C18_FetchExecBitOnly ==
    [][FetchStep =>
         /\ (\A n \in FetchMasks : ~HasBit(n, 1))
                => \A e \in Range(thrown') : e[1] # "memory"
         /\ (\E n \in FetchMasks : HasBit(n, 1) /\ HasBit(n, 4))
                => /\ breakpointTrigged'
                   /\ breakpointInfo'[1] = "memory"
                   /\ breakpointInfo'[2] = 1]_vars

---------------------------------------------------------------------------
(* The shifter and the carry.                                              *)

\* The logical and move opcodes
LogicalOps == {"AND", "EOR", "TST", "TEQ", "ORR", "MOV", "BIC", "MVN"}

\* C19: an executed logical or move data operation with setflags whose
\* second operand is a register shifted by LSL #0 takes the value of the
\* register as its operand and leaves C as it was before the instruction.
C19_LslZeroKeepsCarry ==
    [][(/\ DataOpStep
        /\ CycleInstr.misc.opcode \in LogicalOps
        /\ CycleInstr.misc.setflags
        /\ ~CycleInstr.misc.imm
        /\ CycleInstr.misc.op2[2] = <<"LSL", "imm", 0>>)
       => /\ DataOp2(Cur, CycleInstr.misc) = regs[CycleInstr.misc.op2[1]]
          /\ flags'["C"] = flags["C"]]_vars

\* What a nextInstr call on the fetched instruction adds to the depth when
\* the instruction is executed exactly if its condition holds in the ARM
\* table: 1 for a branch with link, -1 for a register-mode branch.
DepthChange ==
    IF CycleInstr.t = "branch" /\ StdCondHolds(CycleInstr.cond, flags)
    THEN (IF CycleInstr.misc.L THEN 1 ELSE 0)
         - (IF CycleInstr.misc.mode = "reg" THEN 1 ELSE 0)
    ELSE 0

\* C20: setStepCondition sets the depth to 1; from then on, while the step
\* is pending, a cycle adds 1 when it executes a branch with link, subtracts
\* 1 when it executes a register-mode branch, and leaves the depth alone on
\* an instruction whose condition is false and on any other instruction;
\* isStepDone leaves it alone but for the upgrade of a step forward at depth
\* 2 to a step out at depth 1; no other call changes it.
C20_DepthAccounting ==
    [][IF last'.op = "setStepCondition" /\ nCalls' = nCalls + 1
       THEN stepCondition' = 1
       ELSE IF CycleStep
       THEN stepMode # "None" => stepCondition' = stepCondition + DepthChange
       ELSE \/ stepCondition' = stepCondition
            \/ /\ stepMode = "forward" /\ stepCondition = 2
               /\ stepMode' = "out" /\ stepCondition' = 1]_vars

---------------------------------------------------------------------------
(* The decoding of the half-word and signed transfers.                     *)

\* C21: the word bc of a half-word or signed transfer decodes, with bit 22
\* set, to the immediate offset 16 * (bits 11..8) + (bits 3..0), whatever
\* bits 7..4 are, and with bit 22 clear to the offset register of index
\* bits 3..0.
C21_HalfOffsetDecoded ==
    [][(HalfStep /\ last'.I.misc.ok)
       => LET bc == last'.args[1]
              op == last'.I.misc
          IN IF op.imm
             THEN op.offsetImm = 16 * (bc[2] % 16) + (bc[1] % 16)
             ELSE op.offsetReg = bc[1] % 16]_vars

---------------------------------------------------------------------------
(* reset.                                                                  *)

\* What reset() makes of the state s: it returns, the simulator is ready
\* with no cycle counted, PC is 0 and the word at 0 is fetched; R0..R14, the
\* flags, the memory, the breakpoint masks and the step mode and depth are
\* those of s.
ResetAsClaimed(s) ==
    LET r == SimReset(s)
    IN /\ r.exc = "none"
       /\ r.state = "ready"
       /\ r.countCycle = 0
       /\ r.regs[15] = Zero
       /\ r.fetchedInstr = WordAt(s.data, Zero)
       /\ \A id \in 0..14 : r.regs[id] = s.regs[id]
       /\ r.flags = s.flags
       /\ r.data = s.data
       /\ r.breakpoints = s.breakpoints
       /\ r.regbkpt = s.regbkpt
       /\ r.flagbkpt = s.flagbkpt
       /\ r.stepMode = s.stepMode
       /\ r.stepCondition = s.stepCondition

\* C22 as stated: in every state where address 0 is inside a section,
\* reset() does as claimed.
C22_ResetAsStated ==
    (\E sec \in Secs : startAddr[sec] <= 0 /\ 0 < endAddr[sec])
        => ResetAsClaimed(Cur)

\* C22 (amended): in every state where the 4 bytes at 0..3 are inside one
\* section, reset() does as claimed.
C22_Reset == GetRelativeAddr(Zero, 4) # None => ResetAsClaimed(Cur)

\* reset() was just called after three cycles of a program that left R0 at
\* 0x80000000 and N and Z set: the simulator is ready at PC 0 with no cycle
\* counted and the word at 0 fetched, and R0 and the flags are as the
\* program left them.
C22_Witness ==
    /\ last.op = "reset"
    /\ last.pc = FromInt(12)
    /\ nCycles = 3
    /\ exc = "none"
    /\ state = "ready"
    /\ countCycle = 0
    /\ regs[15] = Zero
    /\ regs[0] = W(32768, 0)
    /\ flags["N"] /\ flags["Z"]
    /\ fetchedInstr = WordAt(data, Zero)
    /\ fetchedInstr = EncDataImm("AL", "MOV", 1, 0, 0, 0, 0)

---------------------------------------------------------------------------
(* The arithmetic shift.                                                   *)

\* The arithmetic right shift of the 32-bit value v by n, 0 < n < 32, as a
\* 32-bit value: v >> n with the top n bits equal to bit 31 of v
ArithShift(v, n) ==
    IF Bit(v, 31) = 1
    THEN Or(Shr(v, n), Sub(W(B16, 0), Shl32(FromInt(1), 32 - n)))
    ELSE Shr(v, n)

\* C23: for the value v of the register shifted and the amount 0 < n < 32
\* of an executed data operation whose operand is shifted by ASR #n, the
\* shifter returns carry = bit (n-1) of v and the arithmetic right shift of
\* v by n, a value in [0, 2^32).
C23_ArithmeticShift ==
    [][(/\ DataOpStep
        /\ ~CycleInstr.misc.imm
        /\ CycleInstr.misc.op2[2][1] = "ASR"
        /\ CycleInstr.misc.op2[2][2] = "imm"
        /\ CycleInstr.misc.op2[2][3] \in 1..31)
       => LET v == regs[CycleInstr.misc.op2[1]]
              n == CycleInstr.misc.op2[2][3]
              r == ShiftVal(Cur, v, CycleInstr.misc.op2[2])
          IN /\ r.carry = Bit(v, n - 1)
             /\ r.val = ArithShift(v, n)
             /\ IsU32(r.val)]_vars

---------------------------------------------------------------------------
(* A watchpoint on PC.                                                     *)

===========================================================================
